---- MODULE Spec2Model ----
(***************************************************************************)
(* Session routing and webhook-to-stream relay of app/main.py:             *)
(* register_browser_session, the two handlers registered for               *)
(* POST /webhook/vapi/send-message, and message_stream.event_generator.    *)
(* Each worker process has its own browser_session_mapping,                *)
(* webhook_messages and active_connections; the external store (Redis,     *)
(* reached through redis_service) is shared by all workers.                *)
(***************************************************************************)
EXTENDS Integers, Sequences, FiniteSets, TLC

(* ---------------------------- bounds ---------------------------------- *)
MaxReqs == 2        \* webhook requests handled in one run
MaxRelayReqs == 1   \* webhook requests in a run of the relay alone
MaxRegs == 1        \* register_browser_session calls in one run
MaxOpens == 2       \* streams opened in one run
MaxTicks == 2       \* poll-loop iterations of one open stream
MaxLinks == 2       \* short links the Shlink server can hold
MaxReregs == 2      \* register calls in a run of the session registry
MaxBeatTicks == 31  \* poll-loop iterations of a long-lived stream

(* ------------------------- program constants -------------------------- *)
HeartbeatEvery == 15

None == "None"                  \* Python None / absent key
Workers == {1, 2}
Sessions == {"s1", "s2"}
StreamIds == {1, 2}
Metas == {"jane"}               \* session_data values (opaque metadata)
LinkIds == 1..MaxLinks          \* short codes
Customers == {"jane", "joe"}    \* session_data values of the registry runs

(* ----------------------- webhook payloads ----------------------------- *)
\* One tool invocation: an entry of message.toolCalls[] or a legacy
\* functionCall.  id = "" stands for an absent "id" key; argsForm tells
\* whether arguments is a dict, a JSON string of a dict, or a string that
\* does not parse; session_id/message/role = "" stand for absent keys.
Call(id, name, argsForm, sid, msg, role) ==
    [id |-> id, name |-> name, argsForm |-> argsForm,
     session_id |-> sid, message |-> msg, role |-> role]

\* The webhook body.  valid = FALSE is a body json.loads rejects.
\* message is "absent", "dict" or "text" (a non-dict value); msgType,
\* toolCalls, content and role are the fields of a dict message.
Payload(valid, sid, csid, fc, message, msgType, calls, content, role) ==
    [valid |-> valid, sessionId |-> sid, callSessionId |-> csid,
     functionCall |-> fc, message |-> message, msgType |-> msgType,
     toolCalls |-> calls, content |-> content, role |-> role]

ToolCallPayload(sessionId, callSessionId, msgType, calls) ==
    Payload(TRUE, sessionId, callSessionId, <<>>, "dict", msgType, calls,
            "", "")

LegacyPayload(sessionId, call) ==
    Payload(TRUE, sessionId, None, <<call>>, "absent", "", <<>>, "", "")

DirectPayload(message, content, role) ==
    Payload(TRUE, None, None, <<>>, message, "", <<>>, content, role)

UnknownPayload == Payload(TRUE, None, None, <<>>, "absent", "", <<>>, "", "")

InvalidPayload == Payload(FALSE, None, None, <<>>, "absent", "", <<>>, "", "")

\* Payloads of the runs that exercise queues and streams.
SendCall(sid, msg) == Call("call_1", "send_chat_message", "dict", sid, msg, "")

RoutePayloads ==
    {ToolCallPayload(None, None, "tool-calls", <<SendCall(s, "Hello")>>) :
        s \in Sessions}
    \cup {DirectPayload("dict", "Hi all", "")}

\* Payloads of the runs that exercise the relay's classification and
\* acknowledgements.
BaseCall == Call("call_1", "send_chat_message", "dict", "s1", "Hello", "")

FirstCalls ==
    {BaseCall,
     [BaseCall EXCEPT !.id = ""],
     [BaseCall EXCEPT !.role = "user"],
     [BaseCall EXCEPT !.argsForm = "json"],
     [BaseCall EXCEPT !.argsForm = "garbage"],
     [BaseCall EXCEPT !.session_id = ""],
     [BaseCall EXCEPT !.message = ""],
     [BaseCall EXCEPT !.session_id = "", !.message = ""],
     [BaseCall EXCEPT !.name = "get_weather"],
     [BaseCall EXCEPT !.name = "get_weather", !.id = ""],
     [BaseCall EXCEPT !.name = "get_weather", !.session_id = ""],
     [BaseCall EXCEPT !.name = "get_weather", !.argsForm = "garbage"]}

SecondCall == Call("call_2", "send_chat_message", "dict", "s2", "Later", "")

RelayPayloads ==
    {ToolCallPayload(sid, csid, "tool-calls", <<c>>) :
        sid \in {None, "", "s2"}, csid \in {None, "s1"}, c \in FirstCalls}
    \cup {ToolCallPayload(None, None, "", <<c, SecondCall>>) :
        c \in FirstCalls}
    \cup {ToolCallPayload(sid, None, ty, <<>>) :
        sid \in {None, "s2"}, ty \in {"", "tool-calls"}}
    \cup {LegacyPayload(sid, c) : sid \in {None, "s2"}, c \in FirstCalls}
    \cup {DirectPayload(m, c, r) :
        m \in {"dict", "text"}, c \in {"", "Hi all"}, r \in {"", "user"}}
    \cup {UnknownPayload, InvalidPayload}

(* ------------------------------ state --------------------------------- *)
VARIABLES
    effective,                \* which registration of the route serves it
    connected,                \* redis_service.is_connected(), per worker
    browser_session_mapping,  \* per worker: session id -> metadata
    webhook_messages,         \* per worker: session id -> list of messages
    active_connections,       \* per worker: session ids with a marker
    session_store,            \* external store: session id -> metadata
    session_messages,         \* external store: session_messages:<id>
    streams,                  \* event_generator instances
    emitted,                  \* frames yielded by each stream slot
    last,                     \* last webhook request and its response
    last_register,            \* last register call and its response
    now,                      \* clock behind datetime.now()
    regs, opens,              \* calls counted against the bounds
    shlink_server,            \* short links held by the Shlink server
    shlink_run,               \* one run of the link clean-up
    config                    \* the .env file and the settings read from it

\* The variables of the command-line tools, which the web application
\* never touches.
tools == <<shlink_server, shlink_run, config>>

vars == <<effective, connected, browser_session_mapping, webhook_messages,
          active_connections, session_store, session_messages, streams,
          emitted, last, last_register, now, regs, opens, tools>>

(* ----------------------------- messages ------------------------------- *)
\* message_data as built by the handlers.  dest and origin are history
\* fields (the resolved destination, "*" for a broadcast, and the branch
\* that built the message); the program does not read them.
MessageData(content, role, source, icon, ts, dest, origin) ==
    [content |-> content, role |-> role, timestamp |-> ts,
     source |-> source, icon |-> icon, dest |-> dest, origin |-> origin]

KeepAlive == MessageData(": keep-alive", "", "", "", 0, "", "comment")

Frame(conn, s, m) == [conn |-> conn, session |-> s, message |-> m]

(* --------------------- external store (redis_service) ----------------- *)
store_session(store, s, data) == [store EXCEPT ![s] = data]

get_session(store, s) == store[s]

add_message_to_session(lists, s, m) == [lists EXCEPT ![s] = Append(@, m)]

get_session_messages(lists, s) == lists[s]

delete_key(lists, s) == [lists EXCEPT ![s] = <<>>]

(* ------------------------ local in-memory queue ----------------------- *)
\* Variant: one list shared by every session id.
local_append_shared(queues, s, m) ==
    [t \in Sessions |-> Append(queues[t], m)]

\* if sid not in webhook_messages: webhook_messages[sid] = []
\* webhook_messages[sid].append(message_data)
local_append(queues, s, m) == [queues EXCEPT ![s] = Append(@, m)]

(* ------------------------------ Init ---------------------------------- *)
ClosedStream ==
    [open |-> FALSE, w |-> 1, s |-> "s1", pc |-> "closed", messages |-> <<>>,
     idx |-> 0, heartbeat_counter |-> 0, ticks |-> 0, conn |-> 0]

NoResponse ==
    [form |-> "none", toolCallId |-> "", success |-> FALSE, tag |-> "",
     function_name |-> "", session |-> "", content |-> ""]

NoRequest ==
    [n |-> 0, handler |-> 0, payload |-> UnknownPayload,
     response |-> NoResponse]

NoRegister ==
    [n |-> 0, w |-> 1, browser_session_id |-> "s1", session_data |-> None,
     success |-> FALSE]

\* The variables of the web application.
relay == <<effective, connected, browser_session_mapping, webhook_messages,
           active_connections, session_store, session_messages, streams,
           emitted, last, last_register, now, regs, opens>>

\* No link on the server and no clean-up run started.
NoLink == [exists |-> FALSE, longUrl |-> <<>>, visits |-> 0]

IdleRun ==
    [entry |-> "none", pc |-> "idle", dry_run |-> TRUE,
     args |-> [dry_run |-> FALSE, execute |-> FALSE],
     confirm |-> "", deletable |-> <<>>, idx |-> 0, deleted |-> 0,
     errors |-> 0, requests |-> {}, result |-> "none"]

\* The 13 form fields of save_domain_analysis, by the name of their line
\* in .env, in the order in which missing entries are appended.
FieldOrder ==
    <<"ANALYZED_DOMAIN", "COMPANY_NAME", "WEBSITE_URL", "SUPPORT_EMAIL",
      "IMPRESSUM_URL", "PRIVACY_POLICY_URL", "TERMS_URL", "HERO_TITLE",
      "HERO_TEXT", "PRIMARY_COLOR", "SECONDARY_COLOR", "ACCENT_COLOR",
      "LOGO_URL">>

Fields == {FieldOrder[i] : i \in 1..Len(FieldOrder)}

\* A text is the sequence of its parts; <<>> is the empty string.  NoValue
\* stands for a variable that is not set.
NoValue == <<"(unset)">>

\* No .env file, nothing in the environment, no settings loaded, no
\* request made.  saved, cached_settings and result hold at most one
\* element.
IdleConfig ==
    [env_file |-> <<>>, os_environ |-> [f \in Fields |-> NoValue],
     cached_settings |-> <<>>, saved |-> <<>>, status |-> "none",
     result |-> <<>>, saves |-> 0]

ToolsIdle ==
    /\ shlink_server = [i \in LinkIds |-> NoLink]
    /\ shlink_run = IdleRun
    /\ config = IdleConfig

RelayInit ==
    /\ last_register = NoRegister
    /\ effective \in {1, 2}
    /\ connected \in [Workers -> BOOLEAN]
    /\ browser_session_mapping = [w \in Workers |-> [s \in Sessions |-> None]]
    /\ webhook_messages = [w \in Workers |-> [s \in Sessions |-> <<>>]]
    /\ active_connections = [w \in Workers |-> {}]
    /\ session_store = [s \in Sessions |-> None]
    /\ session_messages = [s \in Sessions |-> <<>>]
    /\ streams = [st \in StreamIds |-> ClosedStream]
    /\ emitted = [st \in StreamIds |-> <<>>]
    /\ last = NoRequest
    /\ now = 0
    /\ regs = 0
    /\ opens = 0

Init == ToolsIdle /\ RelayInit

(* ------------------- register_browser_session ------------------------- *)
\* Variant: the local mapping is written after the store write, so a store
\* write that raises leaves it as it was.
register_store_first(w, s, meta, ok, cap) ==
    /\ regs < cap
    /\ regs' = regs + 1
    /\ last_register' =
           [n |-> regs + 1, w |-> w, browser_session_id |-> s,
            session_data |-> meta, success |-> ~connected[w] \/ ok]
    /\ IF connected[w] /\ ~ok
       THEN UNCHANGED browser_session_mapping
       ELSE browser_session_mapping' =
                [browser_session_mapping EXCEPT ![w][s] = meta]
    /\ IF connected[w] /\ ok
       THEN session_store' = store_session(session_store, s, meta)
       ELSE UNCHANGED session_store
    /\ UNCHANGED tools
    /\ UNCHANGED <<effective, connected, webhook_messages,
                   active_connections,
                   session_messages, streams, emitted, last, now, opens>>

\* ok = FALSE: redis_service.store_session raises; the response is then
\* {"success": False, ...}.
register_browser_session(w, s, meta, ok, cap) ==
    /\ regs < cap
    /\ regs' = regs + 1
    /\ last_register' =
           [n |-> regs + 1, w |-> w, browser_session_id |-> s,
            session_data |-> meta, success |-> ~connected[w] \/ ok]
    /\ browser_session_mapping' =
           [browser_session_mapping EXCEPT ![w][s] = meta]
    /\ IF connected[w] /\ ok
       THEN session_store' = store_session(session_store, s, meta)
       ELSE UNCHANGED session_store
    /\ UNCHANGED tools
    /\ UNCHANGED <<effective, connected, webhook_messages,
                   active_connections,
                   session_messages, streams, emitted, last, now, opens>>

(* ---------------- message_stream.event_generator ---------------------- *)
\* Variant: the keep-alive waits until the counter has passed 15.
EndTickLate(st, g, frames) ==
    LET c == g.heartbeat_counter + 1
        beat == c > HeartbeatEvery
    IN  /\ streams' = [streams EXCEPT ![st] =
               [g EXCEPT !.pc = "poll", !.messages = <<>>, !.idx = 0,
                         !.heartbeat_counter = IF beat THEN 0 ELSE c,
                         !.ticks = @ + 1]]
        /\ emitted' = [emitted EXCEPT ![st] =
               IF beat THEN Append(frames, Frame(g.conn, g.s, KeepAlive))
                       ELSE frames]

\* heartbeat_counter += 1; at 15 a keep-alive comment is yielded and the
\* counter reset; then asyncio.sleep(1) and the next iteration.
EndTick(st, g, frames) ==
    LET c == g.heartbeat_counter + 1
        beat == c >= HeartbeatEvery
    IN  /\ streams' = [streams EXCEPT ![st] =
               [g EXCEPT !.pc = "poll", !.messages = <<>>, !.idx = 0,
                         !.heartbeat_counter = IF beat THEN 0 ELSE c,
                         !.ticks = @ + 1]]
        /\ emitted' = [emitted EXCEPT ![st] =
               IF beat THEN Append(frames, Frame(g.conn, g.s, KeepAlive))
                       ELSE frames]

\* The generator starts: active_connections[id] = True, counter = 0.
\* Slots are taken lowest first.
OpenStream(st, w, s) ==
    /\ opens < MaxOpens
    /\ ~streams[st].open
    /\ \A t \in StreamIds : t < st => streams[t].open
    /\ opens' = opens + 1
    /\ active_connections' = [active_connections EXCEPT ![w] = @ \cup {s}]
    /\ streams' = [streams EXCEPT ![st] =
           [open |-> TRUE, w |-> w, s |-> s, pc |-> "poll",
            messages |-> <<>>, idx |-> 0, heartbeat_counter |-> 0,
            ticks |-> 0, conn |-> opens + 1]]
    /\ UNCHANGED <<last_register, tools>>
    /\ UNCHANGED <<effective, connected, browser_session_mapping,
                   webhook_messages,
                   session_store, session_messages, emitted, last, now,
                   regs>>

\* Variant: the local queue is copied but not emptied.
PollKeepsLocal(st, cap) ==
    LET g == streams[st]
        batch == IF connected[g.w]
                 THEN get_session_messages(session_messages, g.s)
                 ELSE webhook_messages[g.w][g.s]
    IN  /\ g.open /\ g.pc = "poll"
        /\ g.ticks < cap
        /\ IF batch = <<>>
           THEN EndTick(st, g, emitted[st])
           ELSE /\ streams' = [streams EXCEPT ![st] =
                       [g EXCEPT !.pc = "emit", !.messages = batch,
                                 !.idx = 0]]
                /\ UNCHANGED emitted
        /\ UNCHANGED <<last_register, tools>>
        /\ UNCHANGED <<effective, connected, browser_session_mapping,
                       webhook_messages, active_connections, session_store,
                       session_messages, last, now, regs, opens>>

\* Top of the loop: read the batch.  The store is read and left as it is;
\* the local queue is copied and emptied.  An empty batch goes straight to
\* the heartbeat and the sleep.
Poll(st, cap) ==
    LET g == streams[st]
        batch == IF connected[g.w]
                 THEN get_session_messages(session_messages, g.s)
                 ELSE webhook_messages[g.w][g.s]
    IN  /\ g.open /\ g.pc = "poll"
        /\ g.ticks < cap
        /\ IF connected[g.w]
           THEN UNCHANGED webhook_messages
           ELSE webhook_messages' =
                    [webhook_messages EXCEPT ![g.w][g.s] = <<>>]
        /\ IF batch = <<>>
           THEN EndTick(st, g, emitted[st])
           ELSE /\ streams' = [streams EXCEPT ![st] =
                       [g EXCEPT !.pc = "emit", !.messages = batch,
                                 !.idx = 0]]
                /\ UNCHANGED emitted
        /\ UNCHANGED <<last_register, tools>>
        /\ UNCHANGED <<effective, connected, browser_session_mapping,
                       active_connections, session_store, session_messages,
                       last, now, regs, opens>>

\* The loop goes on after cap iterations: the batch is read as before and
\* the heartbeat counter keeps cycling; the iterations that find the queue
\* empty are counted no further and their keep-alive frames are not
\* recorded.
IdlePoll(st, cap) ==
    LET g == streams[st]
        batch == IF connected[g.w]
                 THEN get_session_messages(session_messages, g.s)
                 ELSE webhook_messages[g.w][g.s]
        c == g.heartbeat_counter + 1
    IN  /\ g.open /\ g.pc = "poll"
        /\ g.ticks >= cap
        /\ IF connected[g.w]
           THEN UNCHANGED webhook_messages
           ELSE webhook_messages' =
                    [webhook_messages EXCEPT ![g.w][g.s] = <<>>]
        /\ streams' = [streams EXCEPT ![st] =
               IF batch = <<>>
               THEN [g EXCEPT !.heartbeat_counter =
                                  IF c >= HeartbeatEvery THEN 0 ELSE c]
               ELSE [g EXCEPT !.pc = "emit", !.messages = batch, !.idx = 0]]
        /\ UNCHANGED <<last_register, tools>>
        /\ UNCHANGED <<effective, connected, browser_session_mapping,
                       active_connections, session_store, session_messages,
                       emitted, last, now, regs, opens>>

\* Variant: the batch is yielded last message first.
EmitReversed(st) ==
    LET g == streams[st]
    IN  /\ g.open /\ g.pc = "emit"
        /\ g.idx < Len(g.messages)
        /\ emitted' = [emitted EXCEPT ![st] =
               Append(@, Frame(g.conn, g.s,
                               g.messages[Len(g.messages) - g.idx]))]
        /\ streams' = [streams EXCEPT ![st].idx = @ + 1]
        /\ UNCHANGED <<last_register, tools>>
        /\ UNCHANGED <<effective, connected, browser_session_mapping,
                       webhook_messages, active_connections, session_store,
                       session_messages, last, now, regs, opens>>

\* yield f"data: {json.dumps(message)}\n\n" for the next message.
Emit(st) ==
    LET g == streams[st]
    IN  /\ g.open /\ g.pc = "emit"
        /\ g.idx < Len(g.messages)
        /\ emitted' = [emitted EXCEPT ![st] =
               Append(@, Frame(g.conn, g.s, g.messages[g.idx + 1]))]
        /\ streams' = [streams EXCEPT ![st].idx = @ + 1]
        /\ UNCHANGED <<last_register, tools>>
        /\ UNCHANGED <<effective, connected, browser_session_mapping,
                       webhook_messages,
                       active_connections, session_store, session_messages,
                       last, now, regs, opens>>

\* Variant: an iteration that yielded data skips the keep-alive (the
\* counter is still advanced and reset).
FinishQuiet(st) ==
    LET g == streams[st]
        c == g.heartbeat_counter + 1
    IN  /\ g.open /\ g.pc = "emit"
        /\ g.idx = Len(g.messages)
        /\ IF connected[g.w]
           THEN session_messages' = delete_key(session_messages, g.s)
           ELSE UNCHANGED session_messages
        /\ streams' = [streams EXCEPT ![st] =
               [g EXCEPT !.pc = "poll", !.messages = <<>>, !.idx = 0,
                         !.heartbeat_counter =
                             IF c >= HeartbeatEvery THEN 0 ELSE c,
                         !.ticks = @ + 1]]
        /\ UNCHANGED emitted
        /\ UNCHANGED <<last_register, tools>>
        /\ UNCHANGED <<effective, connected, browser_session_mapping,
                       webhook_messages,
                       active_connections, session_store, last, now, regs,
                       opens>>

\* After the last yield: delete the store key if the store is connected,
\* then heartbeat and sleep.
Finish(st) ==
    LET g == streams[st]
    IN  /\ g.open /\ g.pc = "emit"
        /\ g.idx = Len(g.messages)
        /\ IF connected[g.w]
           THEN session_messages' = delete_key(session_messages, g.s)
           ELSE UNCHANGED session_messages
        /\ EndTick(st, g, emitted[st])
        /\ UNCHANGED <<last_register, tools>>
        /\ UNCHANGED <<effective, connected, browser_session_mapping,
                       webhook_messages,
                       active_connections, session_store, last, now, regs,
                       opens>>

\* redis_client.delete raises: the exception is not a CancelledError, so
\* it leaves the generator without touching active_connections.
DeleteFails(st) ==
    LET g == streams[st]
    IN  /\ g.open /\ g.pc = "emit"
        /\ g.idx = Len(g.messages)
        /\ connected[g.w]
        /\ streams' = [streams EXCEPT ![st] = ClosedStream]
        /\ UNCHANGED <<last_register, tools>>
        /\ UNCHANGED <<effective, connected, browser_session_mapping,
                       webhook_messages,
                       active_connections, session_store, session_messages,
                       emitted, last, now, regs, opens>>

\* The client disconnects while the generator waits in an await (the
\* sleep, the store read or the store delete): CancelledError is raised
\* inside the generator, which removes the marker and re-raises.
CancelAtAwait(st) ==
    LET g == streams[st]
    IN  /\ g.open
        /\ \/ g.pc = "poll"
           \/ g.pc = "emit" /\ g.idx = Len(g.messages) /\ connected[g.w]
        /\ active_connections' =
               [active_connections EXCEPT ![g.w] = @ \ {g.s}]
        /\ streams' = [streams EXCEPT ![st] = ClosedStream]
        /\ UNCHANGED <<last_register, tools>>
        /\ UNCHANGED <<effective, connected, browser_session_mapping,
                       webhook_messages,
                       session_store, session_messages, emitted, last, now,
                       regs, opens>>

\* The client disconnects while the generator is suspended at a yield:
\* the generator is closed there (GeneratorExit), which the
\* except asyncio.CancelledError clause does not catch.
CancelAtYield(st) ==
    LET g == streams[st]
    IN  /\ g.open /\ g.pc = "emit" /\ g.idx >= 1
        /\ streams' = [streams EXCEPT ![st] = ClosedStream]
        /\ UNCHANGED <<last_register, tools>>
        /\ UNCHANGED <<effective, connected, browser_session_mapping,
                       webhook_messages,
                       active_connections, session_store, session_messages,
                       emitted, last, now, regs, opens>>

(* ------------- POST /webhook/vapi/send-message: shared parts ---------- *)
Response(form, toolCallId, success, tag, function_name, session, content) ==
    [form |-> form, toolCallId |-> toolCallId, success |-> success,
     tag |-> tag, function_name |-> function_name, session |-> session,
     content |-> content]

\* Variant: the result text leaves the function name out.
ResultsWithoutName(id, tag, function_name, session, content) ==
    Response("results", id, FALSE, tag, "", session, content)

\* {"results": [{"toolCallId": id, "result": text}]}
Results(id, tag, function_name, session, content) ==
    Response("results", id, FALSE, tag, function_name, session, content)

\* WebhookResponse(success=..., message=..., data=...)
Envelope(success, tag, content) ==
    Response("envelope", "", success, tag, "", "", content)

\* {"error": text}
Error(tag, function_name) ==
    Response("error", "", FALSE, tag, function_name, "", "")

\* str(e) of the exceptions the handlers can meet: json.loads rejecting
\* the body, .get on arguments that are not a dict, a store call raising.
JSONDecodeError == "Expecting value"
AttributeError == "'str' object has no attribute 'get'"
StoreError == "store error"

\* First registration: except Exception as e: return {"error": str(e)}
ErrorOf(text) == Response("error", "", FALSE, "exception", "", "", text)

\* Variant: the exception leaves the handler; no response is built.
WebhookFailureEscapes(text) == NoResponse

\* Second registration: except Exception as e: return
\* WebhookResponse(success=False, message=f"...{str(e)}", data={"error": ..})
WebhookFailure(text) == Envelope(FALSE, "exception", text)

\* tool_call.get("id", "unknown")
CallId(c) == IF c.id = "" THEN "unknown" ELSE c.id

\* json.loads of a string arguments value; a dict is left alone and a
\* string that does not parse stays a string.
ParsedForm(form) == IF form = "json" THEN "dict" ELSE form

\* Variant: the entry that arrived last is the one taken.
LastToolCall(tool_calls) == tool_calls[Len(tool_calls)]

\* tool_calls[0]: of the entries of message.toolCalls the first is taken.
FirstToolCall(tool_calls) == tool_calls[1]

Record(n, handler, w, p, r) ==
    [n |-> n, handler |-> handler, payload |-> p, response |-> r]

(* --------- first registration of POST /webhook/vapi/send-message ------ *)
\* ok = FALSE: redis_service.add_message_to_session raises.
FirstHandlerOutcome(w, p, ok) ==
    LET tool_calls_list == IF p.message = "dict" THEN p.toolCalls ELSE <<>>
        tool_call == FirstToolCall(tool_calls_list)
        tool_call_id == CallId(tool_call)
        message_data == MessageData(tool_call.message, "assistant",
                            "vapi-tool", "mail", now + 1,
                            tool_call.session_id, "tool")
    IN  IF ~p.valid
        THEN [response |-> ErrorOf(JSONDecodeError), add |-> <<>>]
        ELSE IF tool_calls_list = <<>>
        THEN [response |-> Error("no_tool_calls", ""), add |-> <<>>]
        ELSE IF tool_call.name # "send_chat_message"
        THEN [response |-> Error("unknown_function", tool_call.name),
              add |-> <<>>]
        ELSE IF ParsedForm(tool_call.argsForm) # "dict"
        THEN [response |-> ErrorOf(AttributeError), add |-> <<>>]
        ELSE IF tool_call.session_id = "" \/ tool_call.message = ""
        THEN [response |-> Error("missing_session_id_or_message", ""),
              add |-> <<>>]
        ELSE IF ~connected[w]
        THEN [response |-> Error("redis_not_connected", ""), add |-> <<>>]
        ELSE IF ~ok
        THEN [response |-> ErrorOf(StoreError), add |-> <<>>]
        ELSE [response |-> Results(tool_call_id, "sent", "",
                              tool_call.session_id, tool_call.message),
              add |-> <<message_data>>]

vapi_send_message_webhook_1(w, p, ok, cap) ==
    LET out == FirstHandlerOutcome(w, p, ok)
        sid == p.toolCalls[1].session_id
    IN  /\ effective = 1
        /\ last.n < cap
        /\ now' = now + 1
        /\ last' = Record(last.n + 1, 1, w, p, out.response)
        /\ IF out.add # <<>>
           THEN session_messages' =
                    add_message_to_session(session_messages, sid, out.add[1])
           ELSE UNCHANGED session_messages
        /\ UNCHANGED <<last_register, tools>>
        /\ UNCHANGED <<effective, connected, browser_session_mapping,
                       webhook_messages,
                       active_connections, session_store, streams, emitted,
                       regs, opens>>

(* -------- second registration of POST /webhook/vapi/send-message ------ *)
\* session_id from webhook_data["sessionId"], else
\* webhook_data["call"]["sessionId"], else None.
EnvelopeSessionId(p) ==
    IF p.sessionId # None THEN p.sessionId ELSE p.callSessionId

\* is_tool_call: a functionCall, a non-empty message.toolCalls list, or
\* message.type == "tool-calls".
IsToolCall(p) ==
    \/ p.functionCall # <<>>
    \/ p.message = "dict" /\ Len(p.toolCalls) > 0
    \/ p.message = "dict" /\ p.msgType = "tool-calls"

\* Variant: a default session stands in for a missing id.
FinalSessionIdOrDefault(tool_session_id, session_id) ==
    IF tool_session_id # "" THEN tool_session_id
    ELSE IF session_id \notin {None, ""} THEN session_id
    ELSE "s1"

\* tool_session_id or session_id
FinalSessionId(tool_session_id, session_id) ==
    IF tool_session_id # "" THEN tool_session_id ELSE session_id

\* parameters.get("role", "assistant")
RoleOf(role) == IF role = "" THEN "assistant" ELSE role

Keys(mapping) == {s \in Sessions : mapping[s] # None}

\* Append m to the queue of every session in ss.
AppendAll(queues, ss, m) ==
    [s \in Sessions |-> IF s \in ss THEN Append(queues[s], m) ELSE queues[s]]

\* The send_chat_message branch.  okGet = FALSE: redis_service.get_session
\* raises; okAdd = FALSE: redis_service.add_message_to_session raises.
\* Variant: what the store returns is used but not cached.
BackfillSkipped(mapping, w, s, session_info) == mapping

\* The store was asked for s and answered session_info: a hit is cached
\* in this worker's mapping.
Backfill(mapping, w, s, session_info) ==
    IF session_info # None
    THEN [mapping EXCEPT ![w][s] = session_info]
    ELSE mapping

SendChatMessage(w, n, p, fc, form, okGet, okAdd) ==
    LET session_id == EnvelopeSessionId(p)
        final_session_id == FinalSessionId(fc.session_id, session_id)
        message_role == RoleOf(fc.role)
        found == browser_session_mapping[w][final_session_id] # None
        lookup == ~found /\ connected[w]
        session_info == get_session(session_store, final_session_id)
        message_data == MessageData(fc.message, message_role,
                            "voice-function", "", now + 1,
                            final_session_id, "tool")
    IN  IF form # "dict"
        THEN /\ last' = Record(n, 2, w, p, WebhookFailure(AttributeError))
             /\ UNCHANGED <<browser_session_mapping, webhook_messages,
                            session_messages>>
        ELSE IF final_session_id = None \/ final_session_id = ""
        THEN /\ last' = Record(n, 2, w, p,
                            Envelope(FALSE, "missing_session_id", ""))
             /\ UNCHANGED <<browser_session_mapping, webhook_messages,
                            session_messages>>
        ELSE IF lookup /\ ~okGet
        THEN /\ last' = Record(n, 2, w, p, WebhookFailure(StoreError))
             /\ UNCHANGED <<browser_session_mapping, webhook_messages,
                            session_messages>>
        ELSE /\ browser_session_mapping' =
                    IF lookup
                    THEN Backfill(browser_session_mapping, w,
                                  final_session_id, session_info)
                    ELSE browser_session_mapping
             /\ IF connected[w] /\ okAdd
                THEN /\ session_messages' = add_message_to_session(
                            session_messages, final_session_id, message_data)
                     /\ UNCHANGED webhook_messages
                ELSE /\ webhook_messages' = [webhook_messages EXCEPT ![w] =
                            local_append(@, final_session_id, message_data)]
                     /\ UNCHANGED session_messages
             /\ last' = Record(n, 2, w, p,
                            Results(CallId(fc), "routed", "",
                                    final_session_id, fc.message))

\* The direct-message branch: broadcast to the keys of this worker's
\* browser_session_mapping.  stored is the set of sessions whose store
\* write succeeded before one raised; when none raises it is every key.
DirectMessage(w, n, p, stored) ==
    LET message_content == p.content
        message_role == IF p.message = "dict" THEN RoleOf(p.role)
                        ELSE "assistant"
        keys == Keys(browser_session_mapping[w])
        message_data == MessageData(message_content, message_role,
                            "voice-function", "", now + 1, "*", "direct")
    IN  /\ IF message_content # ""
           THEN /\ stored \subseteq keys
                /\ ~connected[w] /\ keys # {} => stored = {}
                /\ session_messages' =
                        AppendAll(session_messages, stored, message_data)
                /\ webhook_messages' =
                        IF stored # keys
                        THEN [webhook_messages EXCEPT ![w] =
                                  AppendAll(@, keys, message_data)]
                        ELSE webhook_messages
           ELSE /\ stored = {}
                /\ UNCHANGED <<webhook_messages, session_messages>>
        /\ last' = Record(n, 2, w, p,
                       Envelope(TRUE, "direct", message_content))
        /\ UNCHANGED browser_session_mapping

vapi_send_message_webhook_2(w, p, okGet, okAdd, stored, cap) ==
    LET n == last.n + 1
        legacy == p.functionCall # <<>>
        tool_calls == IF p.message = "dict" THEN p.toolCalls ELSE <<>>
        fc == IF legacy THEN p.functionCall[1] ELSE FirstToolCall(tool_calls)
        form == IF legacy THEN fc.argsForm ELSE ParsedForm(fc.argsForm)
    IN  /\ effective = 2
        /\ last.n < cap
        /\ now' = now + 1
        /\ IF ~p.valid
           THEN /\ last' = Record(n, 2, w, p,
                               WebhookFailure(JSONDecodeError))
                /\ UNCHANGED <<browser_session_mapping, webhook_messages,
                               session_messages>>
           ELSE IF IsToolCall(p)
           THEN IF ~legacy /\ tool_calls = <<>>
                THEN /\ last' = Record(n, 2, w, p,
                                    Envelope(FALSE, "no_tool_calls", ""))
                     /\ UNCHANGED <<browser_session_mapping,
                                    webhook_messages, session_messages>>
                ELSE IF fc.name = "send_chat_message"
                THEN SendChatMessage(w, n, p, fc, form, okGet, okAdd)
                ELSE /\ last' = Record(n, 2, w, p,
                                    Results(CallId(fc), "unknown_tool",
                                            fc.name, "", ""))
                     /\ UNCHANGED <<browser_session_mapping,
                                    webhook_messages, session_messages>>
           ELSE IF p.message # "absent"
           THEN DirectMessage(w, n, p, stored)
           ELSE /\ last' = Record(n, 2, w, p,
                               Envelope(TRUE, "unknown_format", ""))
                /\ UNCHANGED <<browser_session_mapping, webhook_messages,
                               session_messages>>
        /\ UNCHANGED <<last_register, tools>>
        /\ UNCHANGED <<effective, connected, active_connections,
                       session_store, streams,
                       emitted, regs, opens>>

(* ------------------ shlink: ShlinkManager and its CLI ----------------- *)
\* A long URL is the sequence of its parts; the code looks for the
\* substrings "bifrotek.com" and " ".
LongUrls ==
    {<<"https://", "example.com", "/page">>,
     <<"https://", "example.com", "/my", " ", "page">>,
     <<"https://", "demo.", "bifrotek.com", "/page">>,
     <<"https://", "demo.", "bifrotek.com", "/my", " ", "page">>}

Links ==
    {NoLink} \cup [exists : {TRUE}, longUrl : LongUrls, visits : 0..1]

\* 'bifrotek.com' in long_url
HasBifrotek(url) == \E i \in 1..Len(url) : url[i] = "bifrotek.com"

\* ' ' in long_url
HasSpace(url) == \E i \in 1..Len(url) : url[i] = " "

\* get_all_links_paginated: the short codes of every link, or [] when
\* the first list request fails (a page holds 100 links).
get_all_links_paginated(listOk) ==
    IF listOk
    THEN SelectSeq([i \in 1..MaxLinks |-> i],
                   LAMBDA i : shlink_server[i].exists)
    ELSE <<>>

\* visits of a link as analyze_links sees them: 0 when get_link_visits
\* fails (visitsFail holds the short codes whose visit request fails).
SeenVisits(i, visitsFail) ==
    IF i \in visitsFail THEN 0 ELSE shlink_server[i].visits

\* analyze_links: {"error": ...} when no link is listed; else the links
\* whose URL has a space (and not "bifrotek.com"), split by visits.
analyze_links(listOk, visitsFail) ==
    LET links == get_all_links_paginated(listOk)
        spaced(i) == /\ ~HasBifrotek(shlink_server[i].longUrl)
                     /\ HasSpace(shlink_server[i].longUrl)
        unvisited(i) == spaced(i) /\ ~(SeenVisits(i, visitsFail) > 0)
        visited(i) == spaced(i) /\ SeenVisits(i, visitsFail) > 0
    IN  IF links = <<>>
        THEN [error |-> TRUE, total_links |-> 0, deletable_links_list |-> <<>>,
              not_deletable_links_list |-> <<>>]
        ELSE [error |-> FALSE, total_links |-> Len(links),
              deletable_links_list |-> SelectSeq(links, unvisited),
              not_deletable_links_list |-> SelectSeq(links, visited)]

\* delete_links_with_spaces up to its loop.  Indexing the
\* {"error": ...} analysis with 'deletable_links_list' raises KeyError.
delete_links_with_spaces(entry, dry_run, listOk, visitsFail) ==
    LET analysis == analyze_links(listOk, visitsFail)
        deletable_links == analysis.deletable_links_list
        run == [shlink_run EXCEPT !.entry = entry, !.dry_run = dry_run]
    IN  /\ shlink_run' =
               IF analysis.error
               THEN [run EXCEPT !.pc = "raised", !.result = "KeyError"]
               ELSE IF deletable_links = <<>>
               THEN [run EXCEPT !.pc = "done", !.result = "nothing",
                                !.deleted = 0]
               ELSE [run EXCEPT !.pc = "delete", !.idx = 0, !.deleted = 0,
                                !.errors = 0, !.deletable = deletable_links]
        /\ UNCHANGED shlink_server
        /\ UNCHANGED config
        /\ UNCHANGED relay

\* One iteration of the loop over deletable_links.  ok = FALSE: the
\* DELETE request fails and the short code goes to errors.
DeleteNext(ok) ==
    LET run == shlink_run
        short_code == run.deletable[run.idx + 1]
    IN  /\ run.pc = "delete"
        /\ run.idx < Len(run.deletable)
        /\ IF run.dry_run
           THEN /\ ok
                /\ shlink_run' = [run EXCEPT !.idx = @ + 1]
                /\ UNCHANGED shlink_server
           ELSE /\ shlink_run' =
                       [run EXCEPT !.idx = @ + 1,
                                   !.requests = @ \cup {short_code},
                                   !.deleted = IF ok THEN @ + 1 ELSE @,
                                   !.errors = IF ok THEN @ ELSE @ + 1]
                /\ shlink_server' =
                       IF ok THEN [shlink_server EXCEPT ![short_code] = NoLink]
                       ELSE shlink_server
        /\ UNCHANGED config
        /\ UNCHANGED relay

\* return {"dry_run": ..., "total_deletable": ..., "deleted": ..., ...}
ReturnSummary ==
    /\ shlink_run.pc = "delete"
    /\ shlink_run.idx = Len(shlink_run.deletable)
    /\ shlink_run' = [shlink_run EXCEPT !.pc = "done", !.result = "summary"]
    /\ UNCHANGED shlink_server
    /\ UNCHANGED config
    /\ UNCHANGED relay

\* What the user may type at the confirmation prompt, and str.lower().
Answers == {"ja", "Yes", "y", "nein", ""}

Lower(s) == IF s = "Yes" THEN "yes" ELSE s

\* main() of delete_links_with_spaces.py up to its call of
\* manager.delete_links_with_spaces(dry_run=False).  Indexing the
\* {"error": ...} statistics with 'total_links' raises KeyError.
main(dry_run, execute, confirm, listOk, visitsFail) ==
    LET stats == analyze_links(listOk, visitsFail)
        run == [shlink_run EXCEPT
                    !.entry = "cli", !.dry_run = dry_run,
                    !.args = [dry_run |-> dry_run, execute |-> execute]]
    IN  /\ shlink_run' =
               IF ~dry_run /\ ~execute
               THEN [run EXCEPT !.pc = "done", !.result = "usage"]
               ELSE IF stats.error
               THEN [run EXCEPT !.pc = "raised", !.result = "KeyError"]
               ELSE IF Len(stats.deletable_links_list) = 0
               THEN [run EXCEPT !.pc = "done", !.result = "nothing"]
               ELSE IF dry_run
               THEN [run EXCEPT !.pc = "done", !.result = "dry_run"]
               ELSE IF Lower(confirm) \notin {"ja", "yes", "y"}
               THEN [run EXCEPT !.pc = "done", !.result = "aborted",
                                !.confirm = confirm]
               ELSE [run EXCEPT !.pc = "confirmed", !.confirm = confirm]
        /\ UNCHANGED shlink_server
        /\ UNCHANGED config
        /\ UNCHANGED relay

(* ------------- configuration: .env file and AppSettings --------------- *)
\* f"{KEY}={value}\n"
Line(key, value) == <<key, "=">> \o value \o <<"\n">>

Blank == <<"\n">>

Header == <<"# Domain Analysis Results", "\n">>

IsSpace(part) == part \in {" ", "\n"}

RECURSIVE RStrip(_)
RStrip(text) ==
    IF text # <<>> /\ IsSpace(text[Len(text)])
    THEN RStrip(SubSeq(text, 1, Len(text) - 1))
    ELSE text

RECURSIVE LStrip(_)
LStrip(text) ==
    IF text # <<>> /\ IsSpace(text[1])
    THEN LStrip(SubSeq(text, 2, Len(text)))
    ELSE text

\* str.strip()
Strip(text) == LStrip(RStrip(text))

\* stripped.startswith('KEY=')
StartsWith(stripped, key) ==
    Len(stripped) >= 2 /\ stripped[1] = key /\ stripped[2] = "="

\* line.split('=', 1)[1]
SplitValue(stripped) == SubSeq(stripped, 3, Len(stripped))

\* The value python-dotenv reads from an unquoted KEY=value line: the
\* text up to a "#" that follows white space, without the white space
\* around it.
RECURSIVE CutComment(_)
CutComment(text) ==
    IF text = <<>> THEN <<>>
    ELSE IF Len(text) >= 2 /\ IsSpace(text[1]) /\ text[2] = "#1"
    THEN <<>>
    ELSE <<text[1]>> \o CutComment(SubSeq(text, 2, Len(text)))

DotenvValue(line) == Strip(CutComment(SplitValue(RStrip(line))))

\* The lines of the file that bind key, in file order.
Bindings(lines, key) == SelectSeq(lines, LAMBDA l : StartsWith(Strip(l), key))

\* dotenv_values(".env"): the last binding of a key wins.
dotenv_values(lines) ==
    [f \in Fields |->
        IF Bindings(lines, f) = <<>> THEN NoValue
        ELSE DotenvValue(Bindings(lines, f)[Len(Bindings(lines, f))])]

\* load_dotenv() at import: variables that are already set are kept.
load_dotenv(lines, environ) ==
    [f \in Fields |->
        IF environ[f] # NoValue THEN environ[f] ELSE dotenv_values(lines)[f]]

\* AppSettings(): an environment variable that is set and not empty comes
\* before the .env file, and the file before the default "".
AppSettings(lines, environ) ==
    [f \in Fields |->
        IF environ[f] \notin {NoValue, <<>>} THEN environ[f]
        ELSE IF dotenv_values(lines)[f] \notin {NoValue, <<>>}
        THEN dotenv_values(lines)[f]
        ELSE <<>>]

\* The fields whose line is left alone when the form value is empty.
KeepIfEmpty ==
    {"WEBSITE_URL", "SUPPORT_EMAIL", "IMPRESSUM_URL", "PRIVACY_POLICY_URL",
     "TERMS_URL"}

\* The fields get_env_config_internal takes from the settings object.
SettingsRead ==
    {"ANALYZED_DOMAIN", "COMPANY_NAME", "PRIMARY_COLOR", "SECONDARY_COLOR",
     "ACCENT_COLOR", "LOGO_URL"}

\* The key of the returned dict under which a field is reported.
KeyOf ==
    [ANALYZED_DOMAIN |-> "analyzedDomain", COMPANY_NAME |-> "companyName",
     WEBSITE_URL |-> "websiteUrl", SUPPORT_EMAIL |-> "supportEmail",
     IMPRESSUM_URL |-> "impressumUrl",
     PRIVACY_POLICY_URL |-> "privacyPolicyUrl", TERMS_URL |-> "termsUrl",
     HERO_TITLE |-> "heroTitle", HERO_TEXT |-> "heroText",
     PRIMARY_COLOR |-> "primaryColor", SECONDARY_COLOR |-> "secondaryColor",
     ACCENT_COLOR |-> "accentColor", LOGO_URL |-> "logoUrl"]

ResultKeys == {KeyOf[f] : f \in Fields}

FieldOf(k) == CHOOSE f \in Fields : KeyOf[f] = k

\* The field a line binds, "" if none.
BoundField(line) ==
    IF \E f \in Fields : StartsWith(Strip(line), f)
    THEN CHOOSE f \in Fields : StartsWith(Strip(line), f)
    ELSE ""

\* The "Update existing lines" loop: a line becomes "" (and so vanishes
\* from the file written) when its field is empty in the form.
UpdatedLine(line, form) ==
    LET f == BoundField(line)
    IN  IF f = "" THEN line
        ELSE IF form[f] # <<>> THEN Line(f, form[f])
        ELSE IF f \in KeepIfEmpty THEN line
        ELSE <<>>

\* fields_found after the loop.
FieldsFound(lines, form) ==
    {f \in Fields :
        /\ Bindings(lines, f) # <<>>
        /\ f \in KeepIfEmpty => form[f] # <<>>}

RECURSIVE NewEntries(_, _, _)
NewEntries(i, found, form) ==
    IF i > Len(FieldOrder) THEN <<>>
    ELSE LET f == FieldOrder[i]
         IN  (IF f \notin found /\ form[f] # <<>>
              THEN <<Line(f, form[f])>> ELSE <<>>)
             \o NewEntries(i + 1, found, form)

\* The lines save_domain_analysis writes back.
SavedLines(lines, form) ==
    LET updated == SelectSeq([i \in 1..Len(lines) |->
                                 UpdatedLine(lines[i], form)],
                             LAMBDA l : l # <<>>)
        new_entries == NewEntries(1, FieldsFound(lines, form), form)
        has_header == \E i \in 1..Len(updated) : updated[i] = Header
    IN  IF new_entries = <<>> THEN updated
        ELSE IF has_header THEN updated \o new_entries
        ELSE updated \o <<Blank, Header>> \o new_entries

\* settingsOk = FALSE: get_settings() raises; `settings` is then unbound,
\* the second try fails too and the values are read from the file.  Of
\* the returned dict the 13 keys of the domain analysis are kept.
get_env_config_internal(settingsOk) ==
    LET settings == IF config.cached_settings # <<>>
                    THEN config.cached_settings[1]
                    ELSE AppSettings(config.env_file, config.os_environ)
        direct == [f \in Fields |->
                      IF Bindings(config.env_file, f) = <<>> THEN <<>>
                      ELSE SplitValue(Strip(
                               Bindings(config.env_file, f)[
                                   Len(Bindings(config.env_file, f))]))]
    IN  /\ config.result = <<>>
        /\ config' =
               IF settingsOk
               THEN [config EXCEPT
                        !.cached_settings = <<settings>>,
                        !.result = <<[k \in ResultKeys |->
                                         IF FieldOf(k) \in SettingsRead
                                         THEN settings[FieldOf(k)]
                                         ELSE <<>>]>>]
               ELSE [config EXCEPT
                        !.result = <<[k \in ResultKeys |->
                                         direct[FieldOf(k)]]>>]
        /\ UNCHANGED <<shlink_server, shlink_run>>
        /\ UNCHANGED relay

\* ok = FALSE: reading or writing .env raises, the answer is
\* {"status": "error"} and the cache is not reset.
save_domain_analysis(form, ok, cap) ==
    /\ config.saves < cap
    /\ config' =
           IF ok
           THEN [config EXCEPT
                    !.env_file = SavedLines(config.env_file, form),
                    !.cached_settings = <<>>,
                    !.saved = <<form>>, !.status = "success",
                    !.result = <<>>, !.saves = @ + 1]
           ELSE [config EXCEPT
                    !.status = "error", !.result = <<>>, !.saves = @ + 1]
    /\ UNCHANGED <<shlink_server, shlink_run>>
    /\ UNCHANGED relay

(* --------------------------- specifications --------------------------- *)
Register(workers, oks) ==
    \E w \in workers, s \in Sessions, meta \in Metas, ok \in oks :
        /\ ~connected[w] => ok
        /\ register_browser_session(w, s, meta, ok, MaxRegs)

\* Registrations with two different metadata values, so that a second
\* call for a session id can be told from the first.
Reregister(workers) ==
    \E w \in workers, s \in Sessions, meta \in Customers, ok \in BOOLEAN :
        /\ ~connected[w] => ok
        /\ register_browser_session(w, s, meta, ok, MaxReregs)

Open(slots, workers) ==
    \E st \in slots, w \in workers, s \in Sessions : OpenStream(st, w, s)

Tick(slots) == \E st \in slots : Poll(st, MaxTicks)

\* A tick of a stream that is left open long enough for keep-alives.
LongTick(slots) == \E st \in slots : Poll(st, MaxBeatTicks)

IdleTick(slots) == \E st \in slots : IdlePoll(st, MaxTicks)

Yield(slots) == \E st \in slots : Emit(st)

Clear(slots) == \E st \in slots : Finish(st)

ClearFails(slots) == \E st \in slots : DeleteFails(st)

Disconnect(slots) == \E st \in slots : CancelAtAwait(st)

Close(slots) == \E st \in slots : CancelAtYield(st)

Webhook1(workers, payloads, cap) ==
    \E w \in workers, p \in payloads, ok \in BOOLEAN :
        /\ ~connected[w] => ok
        /\ vapi_send_message_webhook_1(w, p, ok, cap)

\* The inputs a branch does not use are held at one value.
Webhook2(workers, payloads, cap) ==
    \E w \in workers, p \in payloads :
        \/ /\ IsToolCall(p)
           /\ \E okGet \in BOOLEAN, okAdd \in BOOLEAN :
                  /\ ~connected[w] => okGet /\ okAdd
                  /\ vapi_send_message_webhook_2(w, p, okGet, okAdd, {}, cap)
        \/ /\ ~IsToolCall(p)
           /\ \E stored \in SUBSET Keys(browser_session_mapping[w]) :
                  vapi_send_message_webhook_2(w, p, TRUE, TRUE, stored, cap)

\* Workers are interchangeable: of the two mixed connectivities one is kept.
InitSpec == Init /\ (connected[2] => connected[1])

\* Registration, routing and one stream slot, over every store
\* connectivity.
Next ==
    \/ Register(Workers, {TRUE})
    \/ Open({1}, Workers)
    \/ Tick({1})
    \/ Yield({1})
    \/ Clear({1})
    \/ ClearFails({1})
    \/ Disconnect({1})
    \/ Close({1})
    \/ Webhook1(Workers, RoutePayloads, MaxReqs)
    \/ Webhook2(Workers, RoutePayloads, MaxReqs)

Spec == InitSpec /\ [][Next]_vars

\* Routing and one stream slot without registrations.
NextStream ==
    \/ Open({1}, Workers)
    \/ Tick({1})
    \/ Yield({1})
    \/ Clear({1})
    \/ ClearFails({1})
    \/ Disconnect({1})
    \/ Close({1})
    \/ Webhook1(Workers, RoutePayloads, MaxReqs)
    \/ Webhook2(Workers, RoutePayloads, MaxReqs)

SpecStream == InitSpec /\ [][NextStream]_vars

\* One worker whose store is unreachable for the whole run.
InitLocal == Init /\ (\A w \in Workers : ~connected[w])

NextLocal ==
    \/ Register({1}, {TRUE})
    \/ Open({1}, {1})
    \/ Tick({1})
    \/ Yield({1})
    \/ Clear({1})
    \/ Disconnect({1})
    \/ Close({1})
    \/ Webhook1({1}, RoutePayloads, MaxReqs)
    \/ Webhook2({1}, RoutePayloads, MaxReqs)

SpecLocal == InitLocal /\ [][NextLocal]_vars

\* The session registry: registrations on both workers, and the relay's
\* lookups, which write to the local mapping too.
NextRegistry ==
    \/ Reregister(Workers)
    \/ Webhook1(Workers, RoutePayloads, MaxRelayReqs)
    \/ Webhook2(Workers, RoutePayloads, MaxRelayReqs)

SpecRegistry == InitSpec /\ [][NextRegistry]_vars

\* One stream of one worker, never cancelled, ticking past two
\* keep-alives while the relay enqueues.
NextBeat ==
    \/ Open({1}, {1})
    \/ LongTick({1})
    \/ Yield({1})
    \/ Clear({1})
    \/ Webhook1({1}, RoutePayloads, MaxRelayReqs)
    \/ Webhook2({1}, RoutePayloads, MaxRelayReqs)

SpecBeat == InitSpec /\ [][NextBeat]_vars

\* The link clean-up, called directly and through its CLI, over every
\* content of the server; the web application stands still.
RelayIdle ==
    /\ RelayInit
    /\ effective = 1
    /\ connected = [w \in Workers |-> FALSE]

InitShlink ==
    /\ RelayIdle
    /\ config = IdleConfig
    /\ shlink_server \in [LinkIds -> Links]
    /\ shlink_run = IdleRun

CallManager ==
    \E dry_run \in BOOLEAN, listOk \in BOOLEAN, visitsFail \in SUBSET LinkIds :
        /\ shlink_run.pc = "idle"
        /\ delete_links_with_spaces("manager", dry_run, listOk, visitsFail)

RunCli ==
    \E dry_run \in BOOLEAN, execute \in BOOLEAN, confirm \in Answers,
       listOk \in BOOLEAN, visitsFail \in SUBSET LinkIds :
        /\ shlink_run.pc = "idle"
        /\ main(dry_run, execute, confirm, listOk, visitsFail)

CliExecutes ==
    \E listOk \in BOOLEAN, visitsFail \in SUBSET LinkIds :
        /\ shlink_run.pc = "confirmed"
        /\ delete_links_with_spaces("cli", FALSE, listOk, visitsFail)

DeleteOne == \E ok \in BOOLEAN : DeleteNext(ok)

NextShlink ==
    \/ CallManager
    \/ RunCli
    \/ CliExecutes
    \/ DeleteOne
    \/ ReturnSummary

SpecShlink == InitShlink /\ [][NextShlink]_vars

\* One worker with a stream that is never cancelled, whose store delete
\* never fails and that ticks for ever.  The event loop resumes the
\* generator after every sleep and the client takes every frame: each
\* step of the stream that stays enabled is taken.
NextLive ==
    \/ Open({1}, {1})
    \/ Tick({1})
    \/ IdleTick({1})
    \/ Yield({1})
    \/ Clear({1})
    \/ Webhook1({1}, RoutePayloads, MaxReqs)
    \/ Webhook2({1}, RoutePayloads, MaxReqs)

SpecLive ==
    /\ InitSpec
    /\ [][NextLive]_vars
    /\ WF_vars(Tick({1}))
    /\ WF_vars(IdleTick({1}))
    /\ WF_vars(Yield({1}))
    /\ WF_vars(Clear({1}))

\* The relay of one worker alone, over the payload shapes it classifies.
InitRelay == Init /\ connected[2]

NextRelay ==
    \/ Webhook1({1}, RelayPayloads, MaxRelayReqs)
    \/ Webhook2({1}, RelayPayloads, MaxRelayReqs)

SpecRelay == InitRelay /\ [][NextRelay]_vars

\* Two stream slots on one worker: streams that are open at the same
\* time, cancelled only while they await, and whose store delete never
\* fails.
NextPair ==
    \/ Open(StreamIds, {1})
    \/ Tick(StreamIds)
    \/ Yield(StreamIds)
    \/ Clear(StreamIds)
    \/ Disconnect(StreamIds)
    \/ Webhook1({1}, RoutePayloads, MaxRelayReqs)
    \/ Webhook2({1}, RoutePayloads, MaxRelayReqs)

SpecPair == InitSpec /\ [][NextPair]_vars

\* The configuration endpoints over a handful of .env files, the process
\* having run load_dotenv() on the file it started with.
MaxSaves == 2

Texts == {<<"Acme">>, <<"Beta">>, <<"Acme", " ", "#1">>}

\* Forms with one text in every field, and forms with one field filled.
Forms ==
    {[f \in Fields |-> v] : v \in Texts \cup {<<>>}}
    \cup {[f \in Fields |-> IF f = g THEN v ELSE <<>>] :
              g \in Fields, v \in Texts}

InitialFiles ==
    {<<>>,
     <<Line("ASSISTANT_ID", <<"a1">>)>>,
     <<Line("ASSISTANT_ID", <<"a1">>), Line("COMPANY_NAME", <<"Beta">>),
       Line("WEBSITE_URL", <<"Beta">>)>>,
     <<Line("ASSISTANT_ID", <<"a1">>), Blank, Header,
       Line("HERO_TITLE", <<"Beta">>)>>}

\* The process starts with one of the files and loads it into its
\* environment (load_dotenv() runs at import).
InitConfig ==
    /\ RelayIdle
    /\ shlink_server = [i \in LinkIds |-> NoLink]
    /\ shlink_run = IdleRun
    /\ \E lines \in InitialFiles :
           config = [IdleConfig EXCEPT
                        !.env_file = lines,
                        !.os_environ =
                            load_dotenv(lines, IdleConfig.os_environ)]

SaveConfig ==
    \E form \in Forms, ok \in BOOLEAN : save_domain_analysis(form, ok, MaxSaves)

ReadConfig == \E settingsOk \in BOOLEAN : get_env_config_internal(settingsOk)

NextConfig == SaveConfig \/ ReadConfig

SpecConfig == InitConfig /\ [][NextConfig]_vars

(* ============================== claims ================================ *)
Range(q) == {q[i] : i \in 1..Len(q)}

\* The data frames of a stream slot (keep-alive comments left out).
IsData(f) == f.message.origin # "comment"

\* The queue a stream reads: the store list if its worker is connected,
\* else the worker's local queue.
QueueOf(g) ==
    IF connected[g.w] THEN session_messages[g.s]
    ELSE webhook_messages[g.w][g.s]

\* C1: on one open stream the data frames appear in the order in which
\* their messages were enqueued: a frame yielded later never carries a
\* message enqueued earlier than that of a frame yielded before it.
\* (A worker's store connectivity is settled by startup_event and fixed
\* for the run.)
C1_FifoPerSession ==
    \A st \in StreamIds : \A i, j \in 1..Len(emitted[st]) :
        (/\ i < j
         /\ emitted[st][i].conn = emitted[st][j].conn
         /\ IsData(emitted[st][i]) /\ IsData(emitted[st][j]))
        => emitted[st][i].message.timestamp
               <= emitted[st][j].message.timestamp

C1_Witness ==
    \E st \in StreamIds : \E i, j \in 1..Len(emitted[st]) :
        /\ i < j
        /\ emitted[st][i].conn = emitted[st][j].conn
        /\ emitted[st][i].message.timestamp
               < emitted[st][j].message.timestamp

\* C2: no message enqueued for a session is yielded to a client of that
\* session more than once, over all streams opened in the run.
C2_AtMostOnce ==
    \A st, su \in StreamIds :
        \A i \in 1..Len(emitted[st]), j \in 1..Len(emitted[su]) :
            (/\ <<st, i>> # <<su, j>>
             /\ IsData(emitted[st][i])
             /\ emitted[st][i].session = emitted[su][j].session)
            => emitted[st][i].message # emitted[su][j].message

LocalDrainedBeforeEmit ==
    \A st \in StreamIds :
        LET g == streams[st]
        IN  (g.open /\ g.pc = "emit" /\ ~connected[g.w])
            => \A k \in 1..g.idx :
                   g.messages[k] \notin Range(webhook_messages[g.w][g.s])

StoreClearedAfterEmit ==
    \A s \in Sessions :
        Len(session_messages'[s]) < Len(session_messages[s])
        => \E st \in StreamIds :
               LET g == streams[st]
               IN  /\ g.open /\ g.s = s /\ connected[g.w]
                   /\ g.pc = "emit" /\ g.idx = Len(g.messages)
                   /\ g.idx >= 1

C4_NoCrossSessionLeak ==
    /\ \A s \in Sessions : \A m \in Range(session_messages[s]) :
           m.origin = "tool" => m.dest = s
    /\ \A w \in Workers, s \in Sessions :
           \A m \in Range(webhook_messages[w][s]) :
               m.origin = "tool" => m.dest = s
    /\ \A st \in StreamIds : \A f \in Range(emitted[st]) :
           f.message.origin = "tool" => f.message.dest = f.session
    /\ \A st \in StreamIds : \A m \in Range(streams[st].messages) :
           m.origin = "tool" => m.dest = streams[st].s

C4_Witness ==
    /\ \E st \in StreamIds : \E f \in Range(emitted[st]) :
           f.message.origin = "tool" /\ f.session = "s2"
    /\ \E w \in Workers : \E m \in Range(webhook_messages[w]["s1"]) :
           m.origin = "tool"

\* C5: when the relay answers a non-empty direct message with success,
\* the message is then on a queue of every session registered on any
\* worker or in the store.
Registered ==
    {s \in Sessions : \/ session_store[s] # None
                      \/ \E w \in Workers :
                             browser_session_mapping[w][s] # None}

C5_BroadcastReachesAll ==
    [][(/\ last'.n # last.n
        /\ last'.response.tag = "direct"
        /\ last'.response.success
        /\ last'.response.content # "")
       => \A s \in Registered :
              \/ \E m \in Range(session_messages'[s]) :
                     m.timestamp = now' /\ m.origin = "direct"
              \/ \E w \in Workers :
                     \E m \in Range(webhook_messages'[w][s]) :
                         m.timestamp = now' /\ m.origin = "direct"]_vars

\* The first entry of message.toolCalls, for a payload in the
\* message.toolCalls format (no legacy functionCall).
IsToolCalls(p) ==
    p.valid /\ p.functionCall = <<>> /\ p.message = "dict"
        /\ Len(p.toolCalls) >= 1

IncomingCall(p) ==
    IF p.functionCall # <<>> THEN p.functionCall[1] ELSE p.toolCalls[1]

NewRequest == last'.n # last.n

QueuesUnchanged ==
    /\ webhook_messages' = webhook_messages
    /\ session_messages' = session_messages

\* C6: every payload classified as a tool-call is answered in the form
\* {"results": [{"toolCallId": id, ...}]} with the id of the incoming
\* tool call, whatever the outcome.
C6_ToolCallAlwaysAcked ==
    (last.n > 0 /\ last.payload.valid /\ IsToolCall(last.payload))
    => /\ last.response.form = "results"
       /\ (last.payload.functionCall # <<>>
             \/ Len(last.payload.toolCalls) >= 1)
          => last.response.toolCallId = CallId(IncomingCall(last.payload))

\* C7: a send_chat_message entry of message.toolCalls whose arguments (a
\* dict, or a JSON string of one) carry no session_id, in an envelope
\* without sessionId and without call.sessionId, is answered with a
\* failure that names the missing session id, and no session queue (store
\* or local) changes.
MissingSession(p) ==
    /\ IsToolCalls(p)
    /\ p.toolCalls[1].name = "send_chat_message"
    /\ ParsedForm(p.toolCalls[1].argsForm) = "dict"
    /\ p.toolCalls[1].session_id = ""
    /\ p.sessionId = None /\ p.callSessionId = None

UnknownTool(p) ==
    IsToolCalls(p) /\ p.toolCalls[1].name # "send_chat_message"

ResolvedDestination(p) ==
    IF p.toolCalls[1].session_id # "" THEN p.toolCalls[1].session_id
    ELSE IF p.sessionId # None THEN p.sessionId
    ELSE p.callSessionId

Routable(p) ==
    /\ IsToolCalls(p)
    /\ p.toolCalls[1].name = "send_chat_message"
    /\ ParsedForm(p.toolCalls[1].argsForm) = "dict"
    /\ p.toolCalls[1].message # ""
    /\ p.sessionId # ""
    /\ ResolvedDestination(p) \in Sessions

C9_DestinationPriority ==
    [][(NewRequest /\ Routable(last'.payload))
       => LET d == ResolvedDestination(last'.payload)
          IN  /\ last'.response.tag \notin
                     {"missing_session_id", "missing_session_id_or_message"}
              /\ last'.response.form = "results"
                     => last'.response.session = d
              /\ \A s \in Sessions \ {d} :
                     /\ session_messages'[s] = session_messages[s]
                     /\ \A w \in Workers :
                            webhook_messages'[w][s] = webhook_messages[w][s]
      ]_vars

\* C10: with the store unreachable on the single worker, a
\* send_chat_message tool-call for a registered session S with message M
\* is acknowledged as a success and appends one message with content M and
\* role "assistant" to the worker's local queue of S, which the next tick
\* of a stream for S takes as its batch.
C10_LocalFallbackDelivers ==
    [][/\ (/\ NewRequest
           /\ IsToolCalls(last'.payload)
           /\ browser_session_mapping[1][last'.payload.toolCalls[1].session_id]
                  # None)
          => LET c == last'.payload.toolCalls[1]
                 q == webhook_messages'[1][c.session_id]
             IN  /\ last'.response.form = "results"
                 /\ last'.response.tag \in {"routed", "sent"}
                 /\ Len(q) = Len(webhook_messages[1][c.session_id]) + 1
                 /\ q[Len(q)].content = c.message
                 /\ q[Len(q)].role = "assistant"
       /\ (streams[1].pc = "poll" /\ streams'[1].pc = "emit")
          => streams'[1].messages
                 = webhook_messages[streams[1].w][streams[1].s]]_vars

\* The relay's last answer is a success that names session s, and it is
\* the only request of the run so far.
OneEnqueued(s) ==
    /\ last.n = 1
    /\ last.response.form = "results"
    /\ last.response.tag \in {"routed", "sent"}
    /\ last.response.session = s

\* The places <<slot, index>> of the data frames yielded for session s.
DataFramesOf(s) ==
    {x \in UNION {{<<st, i>> : i \in 1..Len(emitted[st])} : st \in StreamIds} :
        /\ IsData(emitted[x[1]][x[2]])
        /\ emitted[x[1]][x[2]].session = s}

\* C11: when one message M has been enqueued for session S and nothing
\* else, a tick of a stream for S that finds M in the queue it reads takes
\* exactly M (role "assistant") as its batch, and over all ticks for S, on
\* this and on later streams, no more than one data frame is ever yielded
\* for S, carrying M.
C11_OneMessageOneEvent ==
    [][\A s \in Sessions :
         (OneEnqueued(s) /\ OneEnqueued(s)')
         => LET M == last.payload.toolCalls[1].message
            IN  /\ Cardinality(DataFramesOf(s)') <= 1
                /\ \A x \in DataFramesOf(s)' :
                       /\ emitted'[x[1]][x[2]].message.content = M
                       /\ emitted'[x[1]][x[2]].message.role = "assistant"
                /\ \A st \in StreamIds :
                       (/\ streams[st].open /\ streams[st].s = s
                        /\ streams[st].pc = "poll"
                        /\ Len(QueueOf(streams[st])) = 1
                        /\ streams'[st].open
                        /\ streams'[st] # streams[st])
                       => /\ streams'[st].pc = "emit"
                          /\ Len(streams'[st].messages) = 1
                          /\ streams'[st].messages[1].content = M
                          /\ streams'[st].messages[1].role = "assistant"
      ]_vars

\* The error cases of a request, read from the step that handles it.
InvalidBody(p) == ~p.valid

ArgumentsNotDict(p) ==
    /\ IsToolCalls(p)
    /\ p.toolCalls[1].name = "send_chat_message"
    /\ ParsedForm(p.toolCalls[1].argsForm) # "dict"

\* A connected worker's local queue grows only when its store write raised.
EnqueueRaised ==
    \E w \in Workers :
        connected[w] /\ webhook_messages'[w] # webhook_messages[w]

FailureWithText(r) ==
    /\ r.form \in {"envelope", "error"}
    /\ ~r.success
    /\ r.tag = "exception"
    /\ r.content \in {JSONDecodeError, AttributeError, StoreError}

Unrecognized(p) == p.valid /\ ~IsToolCall(p) /\ p.message = "absent"

\* C13: a payload of unrecognized shape is answered (no server error)
\* with a failure, success = false, never with a success envelope, and no
\* session queue changes.
C13_UnrecognizedIsFailure ==
    [][(NewRequest /\ Unrecognized(last'.payload))
       => /\ last'.response.form \in {"envelope", "error"}
          /\ ~last'.response.success
          /\ QueuesUnchanged]_vars

\* A well-formed send_chat_message entry of message.toolCalls addressed
\* to a session id that no worker's mapping and no store entry knows.
ToUnregistered(p) ==
    /\ IsToolCalls(p)
    /\ p.toolCalls[1].name = "send_chat_message"
    /\ ParsedForm(p.toolCalls[1].argsForm) = "dict"
    /\ p.toolCalls[1].message # ""
    /\ p.toolCalls[1].session_id \in Sessions \ Registered

\* C14: a send_chat_message tool-call addressed to a session id registered
\* nowhere, with no store call raising, is not rejected: the success
\* acknowledgement names that session id and exactly one message with the
\* call's content is appended to a queue of that session id (store list or
\* the handling worker's local queue).
C14_UnknownSessionAccepted ==
    [][(/\ NewRequest
        /\ ToUnregistered(last'.payload)
        /\ last'.response.content # StoreError)
       => LET c == last'.payload.toolCalls[1]
              s == c.session_id
              grown(old, new) == /\ Len(new) = Len(old) + 1
                                 /\ new[Len(new)].content = c.message
          IN  /\ last'.response.form = "results"
              /\ last'.response.tag \in {"routed", "sent"}
              /\ last'.response.session = s
              /\ \/ /\ grown(session_messages[s], session_messages'[s])
                    /\ webhook_messages' = webhook_messages
                 \/ /\ session_messages' = session_messages
                    /\ \E w \in Workers :
                           grown(webhook_messages[w][s],
                                 webhook_messages'[w][s])]_vars

RegisterStep == last_register'.n # last_register.n

\* C15: a register call, whether its store write succeeds, fails or is
\* skipped, leaves the registering worker's local mapping with S -> m,
\* overwriting what was there; no other step changes a local mapping entry
\* that is set.  So the entry of S on a worker is the metadata of the most
\* recent register call for S on that worker.
C15_LocalMappingFollowsRegister ==
    [][/\ RegisterStep
          => LET r == last_register'
             IN  browser_session_mapping' =
                     [browser_session_mapping EXCEPT
                          ![r.w][r.browser_session_id] = r.session_data]
       /\ ~RegisterStep
          => \A w \in Workers, s \in Sessions :
                 browser_session_mapping[w][s] # None
                 => browser_session_mapping'[w][s]
                        = browser_session_mapping[w][s]]_vars

\* The second register call for a session id had its store write raise:
\* the store keeps the older metadata, the local mapping has the new one.
C15_Witness ==
    LET r == last_register
    IN  /\ r.n = 2 /\ ~r.success
        /\ session_store[r.browser_session_id] \notin {None, r.session_data}
        /\ browser_session_mapping[r.w][r.browser_session_id]
               = r.session_data

\* The stream of slot st ends by cancellation: it closes at a point where
\* no store delete is under way (a delete that raises closes it too).
Cancelled(st) ==
    LET g == streams[st]
    IN  /\ g.open /\ ~streams'[st].open
        /\ ~(g.pc = "emit" /\ g.idx = Len(g.messages) /\ connected[g.w])

\* C16: when a stream for session S is cancelled, S's marker is removed
\* from the worker's active_connections and no queue, local or in the
\* store, changes; and the first tick of a stream for S takes the whole
\* queue it reads as its batch, so what was queued at the cancellation is
\* yielded by the next stream.
C16_CancelRemovesMarkerOnly ==
    [][\A st \in StreamIds :
         /\ Cancelled(st)
            => /\ streams[st].s \notin active_connections'[streams[st].w]
               /\ QueuesUnchanged
         /\ (/\ streams[st].open /\ streams[st].pc = "poll"
             /\ streams[st].ticks = 0
             /\ streams'[st].open /\ streams'[st].pc = "emit")
            => streams'[st].messages = QueueOf(streams[st])]_vars

\* The keep-alive frames that connection conn has yielded on slot st.
KeepAlivesOf(st, conn) ==
    {i \in 1..Len(emitted[st]) :
        emitted[st][i].conn = conn /\ ~IsData(emitted[st][i])}

HeartbeatInStep(st) ==
    LET g == streams[st]
    IN  g.open
        => /\ g.heartbeat_counter \in 0..(HeartbeatEvery - 1)
           /\ g.pc = "poll" => g.heartbeat_counter = g.ticks % HeartbeatEvery
           /\ Cardinality(KeepAlivesOf(st, g.conn))
                  = g.ticks \div HeartbeatEvery

\* C17: a tick that finds the queue empty yields no data frame, and yields
\* a keep-alive comment exactly when it brings the heartbeat counter to 15,
\* which it then resets to 0; between ticks the counter is within 0..14
\* and is the number of ticks since the last keep-alive (or since the
\* stream started), so keep-alives are 15 ticks apart.
C17_KeepAliveEvery15 ==
    [][\A st \in StreamIds :
         /\ HeartbeatInStep(st)'
         /\ (/\ streams[st].open /\ streams[st].pc = "poll"
             /\ QueueOf(streams[st]) = <<>>
             /\ streams'[st] # streams[st])
            => LET g == streams[st]
                   beat == g.heartbeat_counter + 1 = HeartbeatEvery
               IN  /\ streams'[st].pc = "poll"
                   /\ streams'[st].ticks = g.ticks + 1
                   /\ streams'[st].heartbeat_counter
                          = IF beat THEN 0 ELSE g.heartbeat_counter + 1
                   /\ emitted'[st] =
                          IF beat
                          THEN Append(emitted[st],
                                      Frame(g.conn, g.s, KeepAlive))
                          ELSE emitted[st]]_vars

\* Two keep-alives and a data frame on one stream.
C17_Witness ==
    \E st \in StreamIds :
        /\ streams[st].open
        /\ Cardinality(KeepAlivesOf(st, streams[st].conn)) = 2
        /\ \E i \in 1..Len(emitted[st]) : IsData(emitted[st][i])

\* A link that the clean-up is meant to delete: its long URL contains a
\* space and it has no recorded visit.
SpacedUnvisited(link) ==
    link.exists /\ HasSpace(link.longUrl) /\ link.visits = 0

\* A call of delete_links_with_spaces(dry_run=False) returns.
ExecuteReturns ==
    /\ shlink_run.pc # "done" /\ shlink_run'.pc = "done"
    /\ ~shlink_run'.dry_run
    /\ shlink_run'.result \in {"summary", "nothing"}
    /\ shlink_run'.entry = "manager" \/ shlink_run.pc \in {"confirmed", "delete"}

\* C18: delete_links_with_spaces(dry_run=False) sends a DELETE for exactly
\* the links whose long URL contains a space and that have zero recorded
\* visits: each DELETE is for such a link (never for a link that has a
\* visit, also when its visit lookup failed, nor for a URL without a
\* space), and when the call returns every such link has had its DELETE.
C18_DeletesExactlySpacedUnvisited ==
    [][/\ \A i \in shlink_run'.requests \ shlink_run.requests :
              SpacedUnvisited(shlink_server[i])
       /\ ExecuteReturns
          => \A i \in LinkIds :
                 SpacedUnvisited(shlink_server'[i])
                 => i \in shlink_run'.requests]_vars

\* C19: a call with dry_run=True sends no DELETE and ends by reporting
\* deleted = 0, whatever the server holds; a run of the CLI sends a DELETE
\* only when it was started with --execute and without --dry-run and the
\* user answered ja, yes or y.
C19_DryRunDeletesNothing ==
    /\ (shlink_run.entry = "manager" /\ shlink_run.dry_run)
       => /\ shlink_run.requests = {}
          /\ shlink_run.pc \notin {"idle", "delete"}
             => /\ shlink_run.pc = "done"
                /\ shlink_run.result \in {"summary", "nothing"}
                /\ shlink_run.deleted = 0
    /\ (shlink_run.entry = "cli" /\ shlink_run.requests # {})
       => /\ shlink_run.args.execute /\ ~shlink_run.args.dry_run
          /\ Lower(shlink_run.confirm) \in {"ja", "yes", "y"}

\* Request number t was answered with a success that names session s
\* while a stream for s is open on the handling worker with its ticks
\* still to come.
Acknowledged(t, s) ==
    /\ last.n = t
    /\ last.response.form = "results"
    /\ last.response.tag \in {"routed", "sent"}
    /\ last.response.session = s
    /\ streams[1].open /\ streams[1].s = s /\ streams[1].ticks = 0

\* The message of request t (its timestamp is t) was yielded on a stream
\* for s.
Delivered(t, s) ==
    \E i \in 1..Len(emitted[1]) :
        /\ emitted[1][i].session = s
        /\ IsData(emitted[1][i])
        /\ emitted[1][i].message.timestamp = t
        /\ emitted[1][i].message.origin = "tool"

\* C20: a message whose request the relay acknowledged with a success
\* naming session S is eventually yielded on S's stream, given that the
\* stream stays open and keeps ticking; also when the store write raised
\* and the relay put the message on the local queue.
C20_AcknowledgedIsDelivered ==
    \A t \in 1..MaxReqs : \A s \in Sessions :
        Acknowledged(t, s) ~> Delivered(t, s)

\* An iteration that yielded at least one data frame ends.
DataTickEnds(st) ==
    /\ streams[st].open /\ streams[st].pc = "emit"
    /\ streams[st].idx >= 1
    /\ streams'[st].open /\ streams'[st].pc = "poll"

\* C21 as stated: an iteration of the loop that yielded a data frame
\* yields no keep-alive frame.
C21_NoKeepAliveWithData ==
    [][\A st \in StreamIds :
         DataTickEnds(st) => emitted'[st] = emitted[st]]_vars

\* C21 as amended: the keep-alive is yielded on every 15th iteration,
\* with or without data; in an iteration that yields data it comes after
\* the last data frame of the batch, and the frames yielded while the
\* batch is being sent are data frames only.
C21_KeepAliveAfterData ==
    [][\A st \in StreamIds :
         /\ DataTickEnds(st)
            => emitted'[st] =
                   IF streams[st].heartbeat_counter + 1 = HeartbeatEvery
                   THEN Append(emitted[st],
                               Frame(streams[st].conn, streams[st].s,
                                     KeepAlive))
                   ELSE emitted[st]
         /\ (streams[st].pc = "emit" /\ streams'[st].pc = "emit"
             /\ emitted'[st] # emitted[st])
            => /\ Len(emitted'[st]) = Len(emitted[st]) + 1
               /\ IsData(emitted'[st][Len(emitted'[st])])]_vars

\* A keep-alive right behind a data frame of the same connection.
C21_Witness ==
    \E st \in StreamIds : \E i \in 1..Len(emitted[st]) :
        /\ i > 1
        /\ ~IsData(emitted[st][i])
        /\ IsData(emitted[st][i - 1])
        /\ emitted[st][i - 1].conn = emitted[st][i].conn

\* The streams for session s that are open on worker w.
OpenStreamsFor(w, s) ==
    {st \in StreamIds :
        streams[st].open /\ streams[st].w = w /\ streams[st].s = s}

\* C22: on every worker the active-connection marker of session S is
\* present exactly while at least one stream for S is open on that worker.
C22_MarkerIffStreamOpen ==
    \A w \in Workers, s \in Sessions :
        s \in active_connections[w] <=> OpenStreamsFor(w, s) # {}

\* The messages carried by the data frames of the stream open in slot st.
EmittedOn(st) ==
    {emitted[st][i].message :
        i \in {j \in 1..Len(emitted[st]) :
                  /\ emitted[st][j].conn = streams[st].conn
                  /\ IsData(emitted[st][j])}}

\* C27: while two streams are open for the same session id, no message
\* has been emitted by both of them.
C27_OneStreamPerMessage ==
    \A st1, st2 \in StreamIds :
        (/\ st1 # st2
         /\ streams[st1].open /\ streams[st2].open
         /\ streams[st1].s = streams[st2].s)
        => EmittedOn(st1) \cap EmittedOn(st2) = {}

\* The second registration handles tool-call payload p on worker B and
\* routes it; okGet = FALSE: a store read, if one is made, raises.
RoutedOn(B, p, okGet, okAdd) ==
    /\ IsToolCall(p)
    /\ vapi_send_message_webhook_2(B, p, okGet, okAdd, {}, MaxRelayReqs)
    /\ last'.response.tag = "routed"

QueuedPlaces ==
    UNION {{<<w, s, i>> : i \in 1..Len(webhook_messages[w][s])} :
               w \in Workers, s \in Sessions}
    \cup UNION {{<<0, s, i>> : i \in 1..Len(session_messages[s])} :
               s \in Sessions}

QueuedAt(x) ==
    IF x[1] = 0 THEN session_messages[x[2]][x[3]]
    ELSE webhook_messages[x[1]][x[2]][x[3]]

SeveralToolCalls(p) ==
    /\ p.valid /\ p.message = "dict" /\ p.functionCall = <<>>
    /\ Len(p.toolCalls) >= 2

\* C24: a request whose message.toolCalls has two or more entries adds at
\* most one message to the queues, with the first entry's message text;
\* an acknowledgement in the results form carries the first entry's id and
\* exactly one toolCallId; nothing of a later entry is enqueued or
\* acknowledged.
C24_FirstToolCallOnly ==
    [][(NewRequest /\ SeveralToolCalls(last'.payload))
       => LET first == last'.payload.toolCalls[1]
              added == QueuedPlaces' \ QueuedPlaces
          IN  /\ Cardinality(added) <= 1
              /\ \A x \in added :
                     /\ QueuedAt(x)'.content = first.message
                     /\ QueuedAt(x)'.timestamp = now'
              /\ \A x \in QueuedPlaces : QueuedAt(x)' = QueuedAt(x)
              /\ last'.response.form = "results"
                 => last'.response.toolCallId = CallId(first)
              /\ last'.response.toolCallId
                     \notin {last'.payload.toolCalls[i].id :
                                i \in 2..Len(last'.payload.toolCalls)}
              /\ last'.response.content
                     \notin {last'.payload.toolCalls[i].message :
                                i \in 2..Len(last'.payload.toolCalls)}]_vars

\* A two-entry request was acknowledged with the first entry's id and its
\* message is queued, the second entry's is not.
C24_Witness ==
    /\ last.n > 0 /\ SeveralToolCalls(last.payload)
    /\ last.response.form = "results"
    /\ last.response.toolCallId = last.payload.toolCalls[1].id
    /\ \E x \in QueuedPlaces :
           QueuedAt(x).content = last.payload.toolCalls[1].message
    /\ \A x \in QueuedPlaces :
           QueuedAt(x).content # last.payload.toolCalls[2].message

\* The last save succeeded with a text in every field and the
\* configuration has been read since.
SavedAllThenRead ==
    /\ config.saved # <<>> /\ config.status = "success"
    /\ \A f \in Fields : config.saved[1][f] # <<>>
    /\ config.result # <<>>

\* C25: after save_domain_analysis succeeded with a non-empty value in
\* each of its 13 fields, get_env_config_internal returns each saved
\* value under the key of its field.
C25_SaveReadRoundTrip ==
    SavedAllThenRead
    => \A f \in Fields : config.result[1][KeyOf[f]] = config.saved[1][f]

\* C26: in external-store mode, when a tick for session S ends, every
\* message that was in S's stored list is either part of the batch the
\* tick emitted or still in the list.
C26_ConcurrentAppendKept ==
    [][\A st \in StreamIds :
         (/\ streams[st].open /\ connected[streams[st].w]
          /\ streams[st].pc = "emit" /\ streams'[st].pc = "poll")
         => Range(session_messages[streams[st].s])
                \subseteq Range(streams[st].messages)
                          \cup Range(session_messages'[streams[st].s])]_vars

\* The length of every queue, local and stored.
QueueLengths ==
    [x \in (Workers \cup {0}) \X Sessions |->
        IF x[1] = 0 THEN Len(session_messages[x[2]])
        ELSE Len(webhook_messages[x[1]][x[2]])]

\* What the first registration would have answered and enqueued, on
\* worker w and in the state before the step.
FirstWouldAnswer(w, p, ok) ==
    LET out == FirstHandlerOutcome(w, p, ok)
        sid == p.toolCalls[1].session_id
    IN  [form |-> out.response.form,
         lengths |-> [x \in (Workers \cup {0}) \X Sessions |->
                         IF out.add # <<>> /\ x = <<0, sid>>
                         THEN QueueLengths[x] + 1
                         ELSE QueueLengths[x]]]

\* C28: whenever the second registration handles a tool-call payload (on
\* worker 1, the worker of this specification's requests), the first
\* registration, given the same payload in the same state and the same
\* luck with the store, would have answered in the same form and left
\* every queue with the same number of messages.
C28_HandlersEquivalent ==
    [][(/\ NewRequest /\ last'.handler = 2
        /\ last'.payload.valid /\ IsToolCall(last'.payload)
        /\ last'.payload.functionCall = <<>>)
       => \E ok \in BOOLEAN :
              /\ ~connected[1] => ok
              /\ FirstWouldAnswer(1, last'.payload, ok)
                     = [form |-> last'.response.form,
                        lengths |-> QueueLengths']]_vars

\* A register call answered with success = False.
RegisterFails == RegisterStep /\ ~last_register'.success

\* C29 as stated: a register call answered with success = False leaves
\* the worker's local mapping for that session id as it was.
C29_FailedRegisterChangesNothing ==
    [][RegisterFails
       => LET r == last_register'
          IN  browser_session_mapping'[r.w][r.browser_session_id]
                  = browser_session_mapping[r.w][r.browser_session_id]]_vars

\* C29 as amended: success = False is answered only when the store is
\* connected and its write raised, and the local mapping of the worker
\* then holds the metadata of the failed call for that session id; every
\* other entry of the local mappings is as before.
C29_FailedRegisterWritesLocal ==
    [][RegisterFails
       => LET r == last_register'
          IN  /\ connected[r.w]
              /\ browser_session_mapping'[r.w][r.browser_session_id]
                     = r.session_data
              /\ \A w \in Workers, s \in Sessions :
                     <<w, s>> # <<r.w, r.browser_session_id>>
                     => browser_session_mapping'[w][s]
                            = browser_session_mapping[w][s]]_vars

\* The only register call so far failed: the store has nothing for the
\* session, and the worker's local mapping, empty until then, has the
\* metadata of the call.
C29_Witness ==
    LET r == last_register
    IN  /\ regs = 1 /\ r.n = 1 /\ ~r.success /\ last.n = 0
        /\ session_store[r.browser_session_id] = None
        /\ browser_session_mapping[r.w][r.browser_session_id] = r.session_data
        /\ r.session_data # None

\* C30: no call of delete_links_with_spaces and no run of the CLI ends by
\* raising, whatever the server holds and whether or not the listing
\* succeeds.
C30_CleanupNeverRaises ==
    /\ shlink_run.pc # "raised"
    /\ shlink_run.result # "KeyError"

====
